---- MODULE Spec2Model ----
(***************************************************************************)
(* Habit100 TUI (src/habit100.py): the habits and entries documents, the   *)
(* handlers of the main application and of its three dialogs.              *)
(*                                                                         *)
(* Text is a sequence of one-character strings, so that str.strip and      *)
(* str.split are computed as Python computes them.  An entry's "ts" field  *)
(* is written from the wall clock and only ever printed; it is left out.   *)
(* A date is its day offset from date.today(); strftime("%Y-%m-%d") is     *)
(* injective, so the day key of a date is written as that offset.          *)
(***************************************************************************)
EXTENDS Integers, Sequences, FiniteSets, TLC

VARIABLES habits_json,   \* self.habits_json["habits"]: the list of habit dicts
          entries_json,  \* self.entries_json["days"]: day key -> list of records
          current_date,  \* self.current_date, as an offset from date.today()
          filter_tag,    \* self.filter_tag
          table,         \* rows of the DataTable, as refresh_table left them
          report,        \* content of the #report panel
          screen,        \* the dialog pushed on top of the main screen, if any
          disk,          \* habits.json and entries.json, as Store.save left them
          last,          \* history: the handler that ran last, if it wrote or showed
                         \* anything ("view": it opened, cancelled or moved the date)
          streak,        \* history: the check habit toggled last, and its completion
                         \* and the day's records before each of the last (at most
                         \* two) toggles in a row
          retired        \* history, kept when the session is recorded: the ids of
                         \* the habits deleted so far

vars == <<habits_json, entries_json, current_date, filter_tag, table, report,
          screen, disk, last, streak, retired>>

----------------------------------------------------------------------------
(* Bounds of the model *)

MaxHabits == 2
MaxEntries == 2

\* ids are handed out as max + 1, so they outgrow the number of habits
MaxId == MaxHabits + 1

----------------------------------------------------------------------------
(* Text *)

SP == " "
COMMA == ","

Str_check == <<"c", "h", "e", "c", "k">>
Str_log == <<"l", "o", "g">>

RECURSIVE LStrip(_)
LStrip(s) == IF s # <<>> /\ Head(s) = SP THEN LStrip(Tail(s)) ELSE s

RECURSIVE RStrip(_)
RStrip(s) ==
    IF s # <<>> /\ s[Len(s)] = SP THEN RStrip(SubSeq(s, 1, Len(s) - 1)) ELSE s

\* faulty variant: nothing is stripped
Strip_none(s) == s

\* str.strip()
Strip(s) == RStrip(LStrip(s))

\* str.split(","): the pieces between the commas, empty pieces included
RECURSIVE Split(_)
Split(s) ==
    IF \E i \in 1..Len(s) : s[i] = COMMA
    THEN LET i == CHOOSE k \in 1..Len(s) :
                      s[k] = COMMA /\ \A j \in 1..(k - 1) : s[j] # COMMA
         IN  <<SubSeq(s, 1, i - 1)>> \o Split(SubSeq(s, i + 1, Len(s)))
    ELSE <<s>>

\* ",".join(list)
RECURSIVE Join(_)
Join(l) ==
    IF l = <<>> THEN <<>>
    ELSE IF Len(l) = 1 THEN l[1]
    ELSE l[1] \o <<COMMA>> \o Join(Tail(l))

NonEmptyText(t) == t # <<>>

\* [t.strip() for t in value.split(",") if t.strip()]
ParseTags(value) ==
    LET parts == Split(value)
        stripped == [i \in 1..Len(parts) |-> Strip(parts[i])]
    IN  SelectSeq(stripped, NonEmptyText)

\* value.strip() or "check"
ParseType(value) == IF Strip(value) = <<>> THEN Str_check ELSE Strip(value)

----------------------------------------------------------------------------
(* THEMES: seven distinct strings, written here as the digits 1..7 *)

THEMES == << <<"1">>, <<"2">>, <<"3">>, <<"4">>, <<"5">>, <<"6">>, <<"7">> >>

\* Optional[str]: None, or a string
None == [isNone |-> TRUE, s |-> <<>>]
Some(s) == [isNone |-> FALSE, s |-> s]

\* the "val" of a record: the boolean True, or a string
ValTrue == [isStr |-> FALSE, str |-> <<>>]
ValStr(s) == [isStr |-> TRUE, str |-> s]

IsTrue(v) == ~v.isStr            \* r.get("val") is True
IsStr(v) == v.isStr              \* isinstance(r.get("val"), str)

Habit(id, title, tags, type) ==
    [id |-> id, title |-> title, tags |-> tags, type |-> type, active |-> TRUE]

----------------------------------------------------------------------------
(* What the user can type into the dialogs *)

TitleInputs == { <<>>, <<SP>>, <<"a">>, <<SP, "a", SP>> }
TagsInputs == { <<>>, <<"1">>, <<SP, "1", COMMA, SP, COMMA>> }
TypeInputs == { <<>>, <<SP>>, Str_check, Str_log, <<SP>> \o Str_log, <<"x">> }
LogInputs == { <<>>, <<SP>>, <<"s">>, <<SP, "t", SP>> }

----------------------------------------------------------------------------
(* Small helpers over lists *)

Range(f) == { f[i] : i \in DOMAIN f }

\* the first of a set of positions of a list, or 0 when there is none
FirstOf(S) == IF S = {} THEN 0 ELSE CHOOSE i \in S : \A j \in S : i <= j

RemoveAt(l, i) == SubSeq(l, 1, i - 1) \o SubSeq(l, i + 1, Len(l))

Max(S) == CHOOSE m \in S : \A x \in S : x <= m

\* str(n) and int(s) for the non-negative integers
Digits == <<"0", "1", "2", "3", "4", "5", "6", "7", "8", "9">>

RECURSIVE IntToStr(_)
IntToStr(n) ==
    IF n < 10 THEN <<Digits[n + 1]>>
    ELSE IntToStr(n \div 10) \o <<Digits[(n % 10) + 1]>>

DigitValue(c) == (CHOOSE k \in 1..10 : Digits[k] = c) - 1

RECURSIVE StrToInt(_)
StrToInt(s) ==
    IF Len(s) = 1 THEN DigitValue(s[1])
    ELSE 10 * StrToInt(SubSeq(s, 1, Len(s) - 1)) + DigitValue(s[Len(s)])

\* sorted(habits, key=lambda x: x["id"]): a stable sort
RECURSIVE InsertById(_, _)
InsertById(sorted, h) ==
    IF sorted = <<>> THEN <<h>>
    ELSE IF sorted[Len(sorted)].id <= h.id THEN Append(sorted, h)
    ELSE Append(InsertById(SubSeq(sorted, 1, Len(sorted) - 1), h), sorted[Len(sorted)])

RECURSIVE SortedById(_)
SortedById(hs) ==
    IF hs = <<>> THEN <<>>
    ELSE InsertById(SortedById(SubSeq(hs, 1, Len(hs) - 1)), hs[Len(hs)])

----------------------------------------------------------------------------
(* Store and the helpers of HabitTUI *)

\* date.today()
Today == 0

\* faulty variant: the number of habits + 1
next_id_count(hs) == Len(hs) + 1

\* faulty variant: the smallest id that is free
next_id_free(hs) ==
    CHOOSE n \in 1..(Len(hs) + 1) :
        /\ \A i \in 1..Len(hs) : hs[i].id # n
        /\ \A m \in 1..(n - 1) : \E i \in 1..Len(hs) : hs[i].id = m

\* Store.next_id
next_id(hs) ==
    LET ids == { hs[i].id : i \in 1..Len(hs) }
    IN  IF ids # {} THEN Max(ids) + 1 ELSE 1

\* Store.save: both documents are written whole
save(hs, days) == [habits |-> hs, days |-> days]

\* HabitTUI.day_key
day_key(d) == d

\* entries.get("days", {}).get(dkey, [])
DayList(days, dkey) == IF dkey \in DOMAIN days THEN days[dkey] ELSE <<>>

\* entries.setdefault("days", {}).setdefault(dkey, [])
SetDefault(days, dkey) ==
    IF dkey \in DOMAIN days THEN days ELSE (dkey :> <<>>) @@ days

\* next((x for x in habits if x["id"] == hid), None), as a position (0: None)
FindHabit(hs, hid) == FirstOf({ i \in 1..Len(hs) : hs[i].id = hid })

\* HabitTUI.today_done_ids
today_done_ids(days, dkey) ==
    LET arr == DayList(days, dkey)
    IN  { arr[i].id : i \in { j \in 1..Len(arr) : IsTrue(arr[j].val) \/ IsStr(arr[j].val) } }

\* the filter test of refresh_table: filter_tag and filter_tag not in tags
FilteredOut(h, ft) == (~ft.isNone /\ ft.s # <<>>) /\ ft.s \notin Range(h.tags)

\* HabitTUI.refresh_table: the rows it puts into the DataTable
refresh_table(hs, days, date, ft) ==
    LET done == today_done_ids(days, day_key(date))
        Shown(h) == h.active /\ ~FilteredOut(h, ft)
        sel == SelectSeq(SortedById(hs), Shown)
    IN  [i \in 1..Len(sel) |->
            [mark |-> sel[i].id \in done,
             id |-> IntToStr(sel[i].id),
             type |-> sel[i].type,
             title |-> sel[i].title,
             tags |-> Join(sel[i].tags)]]

\* int(row[1]) of the rows the cursor can be on
CursorIds(t) == { StrToInt(t[i].id) : i \in 1..Len(t) }

\* the lines action_show_report makes of the records arr of one day
ReportLines(hs, arr) ==
    LET sorted == SortedById(hs)
        LinesOf(h) ==
            LET Mine(r) == r.id = h.id
                logs == SelectSeq(arr, Mine)
                Text(r) == IsStr(r.val)
                strs == SelectSeq(logs, Text)
            IN  IF ~h.active THEN <<>>
                ELSE IF h.type = Str_check
                THEN IF \E i \in 1..Len(logs) : IsTrue(logs[i].val)
                     THEN << [kind |-> "check", id |-> h.id, title |-> h.title,
                              val |-> <<>>] >>
                     ELSE <<>>
                ELSE [i \in 1..Len(strs) |->
                         [kind |-> "log", id |-> h.id, title |-> h.title,
                          val |-> strs[i].val.str]]
        RECURSIVE Lines(_)
        Lines(k) == IF k = 0 THEN <<>> ELSE Lines(k - 1) \o LinesOf(sorted[k])
    IN  Lines(Len(sorted))

\* faulty variant: reports today, whatever date is shown
build_report_today(hs, days, date) == ReportLines(hs, DayList(days, day_key(Today)))

\* HabitTUI.action_show_report: the lines below the header
build_report(hs, days, date) == ReportLines(hs, DayList(days, day_key(date)))

\* faulty variant: always checks, never unchecks
ToggleRecord_append(arr, hid) == Append(arr, [id |-> hid, val |-> ValTrue])

\* faulty variant: a new completion record is stored first, not last
ToggleRecord_front(arr, hid) ==
    LET i == FirstOf({ k \in 1..Len(arr) : arr[k].id = hid /\ IsTrue(arr[k].val) })
    IN  IF i # 0 THEN RemoveAt(arr, i)
        ELSE <<[id |-> hid, val |-> ValTrue]>> \o arr

\* the check branch of action_toggle_check on the list of one day
ToggleRecord(arr, hid) ==
    LET i == FirstOf({ k \in 1..Len(arr) : arr[k].id = hid /\ IsTrue(arr[k].val) })
    IN  IF i # 0 THEN RemoveAt(arr, i)
        ELSE Append(arr, [id |-> hid, val |-> ValTrue])

\* the comprehension of action_delete_habit over the habit list
RemoveHabit(hs, hid) == LET Keep(h) == h.id # hid IN SelectSeq(hs, Keep)

\* faulty variant: cleans the shown day only
RemoveEntries_current(days, hid) ==
    LET Keep(r) == r.id # hid
    IN  [d \in DOMAIN days |->
            IF d = day_key(current_date) THEN SelectSeq(days[d], Keep) ELSE days[d]]

\* faulty variant: the test is turned around, the habit's records are kept
RemoveEntries_kept(days, hid) ==
    LET Keep(r) == r.id = hid
    IN  [d \in DOMAIN days |-> SelectSeq(days[d], Keep)]

\* the comprehension of action_delete_habit over every day
RemoveEntries(days, hid) ==
    LET Keep(r) == r.id # hid
    IN  [d \in DOMAIN days |-> SelectSeq(days[d], Keep)]

\* the body of action_toggle_filter
cycle_filter(ft) ==
    IF ft.isNone THEN Some(THEMES[1])
    ELSE LET idx == FirstOf({ k \in 1..Len(THEMES) : THEMES[k] = ft.s }) - 1
         IN  IF idx >= 0 THEN Some(THEMES[((idx + 1) % Len(THEMES)) + 1]) ELSE None

----------------------------------------------------------------------------
(* The state after HabitTUI.__init__ and on_mount on a first run: Store()   *)
(* has written the two empty documents and load() has read them back.      *)

\* the dates the user navigates between: today and tomorrow
Dates == {Today, Today + 1}

MainScreen == [kind |-> "main", hid |-> 0, live |-> FALSE]
AddDialog == [kind |-> "add", hid |-> 0, live |-> FALSE]
EditDialog(hid) == [kind |-> "edit", hid |-> hid, live |-> TRUE]
LogDialog(hid) == [kind |-> "log", hid |-> hid, live |-> TRUE]
DateDialog == [kind |-> "date", hid |-> 0, live |-> FALSE]

EmptyPanel == [kind |-> "empty", day |-> 0, body |-> <<>>]

EmptyDays == [d \in {} |-> <<>>]

NoStreak == [hid |-> 0, pre |-> <<>>, was |-> <<>>]

NotRecorded == [rec |-> FALSE, ids |-> {}]
Recorded(ids) == [rec |-> TRUE, ids |-> ids]

Init ==
    /\ habits_json = <<>>
    /\ entries_json = EmptyDays
    /\ current_date = Today
    /\ filter_tag = None
    /\ table = refresh_table(<<>>, EmptyDays, Today, None)
    /\ report = EmptyPanel
    /\ screen = MainScreen
    /\ disk = save(<<>>, EmptyDays)
    /\ last = "init"
    /\ streak = NoStreak
    /\ retired = NotRecorded

TotalEntries(days) ==
    LET RECURSIVE Sum(_)
        Sum(S) == IF S = {} THEN 0
                  ELSE LET d == CHOOSE x \in S : TRUE
                       IN  Len(days[d]) + Sum(S \ {d})
    IN  Sum(DOMAIN days)

\* whether habit hid is checked off on day dkey
Completed(days, hid, dkey) ==
    \E r \in Range(DayList(days, dkey)) : r.id = hid /\ IsTrue(r.val)

\* a deleted habit's dict stays referenced by the dialog that was opened on it,
\* but is no longer an element of the habit list
Detach(scr, hid) ==
    IF scr.kind = "edit" /\ scr.hid = hid THEN [scr EXCEPT !.live = FALSE] ELSE scr

\* the ids that have left the list hs when delete_habit(hid) has run on it
Retire(r, hs, hid) ==
    IF r.rec
    THEN Recorded(r.ids \cup { hs[i].id : i \in { k \in 1..Len(hs) : hs[k].id = hid } })
    ELSE r

----------------------------------------------------------------------------
(* Handlers of HabitTUI *)

\* Space on the row of habit hid
action_toggle_check(hid) ==
    /\ hid \in CursorIds(table)
    /\ LET i == FindHabit(habits_json, hid)
           dkey == day_key(current_date)
           days == SetDefault(entries_json, dkey)
       IN  IF i = 0
           THEN UNCHANGED vars
           ELSE IF habits_json[i].type = Str_check
           THEN LET arr == ToggleRecord(days[dkey], hid)
                    days2 == [days EXCEPT ![dkey] = arr]
                    before == Completed(days, hid, dkey)
                    going == streak.hid = hid
                IN  /\ Len(arr) > Len(days[dkey]) => TotalEntries(days) < MaxEntries
                    /\ entries_json' = days2
                    /\ disk' = save(habits_json, days2)
                    /\ table' = refresh_table(habits_json, days2, current_date, filter_tag)
                    /\ streak' = [hid |-> hid,
                                   pre |-> IF going
                                           THEN <<streak.pre[Len(streak.pre)], before>>
                                           ELSE <<before>>,
                                   was |-> IF going
                                           THEN <<streak.was[Len(streak.was)], days[dkey]>>
                                           ELSE <<days[dkey]>>]
                    /\ last' = "toggle_check"
                    /\ UNCHANGED <<habits_json, current_date, filter_tag, report, screen, retired>>
           ELSE /\ screen = MainScreen
                /\ entries_json' = days
                /\ screen' = LogDialog(hid)
                /\ streak' = NoStreak
                /\ last' = "toggle_check"
                /\ UNCHANGED <<habits_json, current_date, filter_tag, table, report, disk, retired>>

\* a
action_add_habit ==
    /\ screen = MainScreen
    /\ screen' = AddDialog
    /\ last' = "view"
    /\ streak' = NoStreak
    /\ UNCHANGED <<habits_json, entries_json, current_date, filter_tag, table, report, disk, retired>>

\* e on the row of habit hid
action_edit_habit(hid) ==
    /\ hid \in CursorIds(table)
    /\ screen = MainScreen
    /\ FindHabit(habits_json, hid) # 0
    /\ screen' = EditDialog(hid)
    /\ last' = "view"
    /\ streak' = NoStreak
    /\ UNCHANGED <<habits_json, entries_json, current_date, filter_tag, table, report, disk, retired>>

\* d on the row of habit hid
action_delete_habit(hid) ==
    /\ hid \in CursorIds(table)
    /\ LET hs == RemoveHabit(habits_json, hid)
           days == RemoveEntries(entries_json, hid)
       IN  /\ habits_json' = hs
           /\ entries_json' = days
           /\ disk' = save(hs, days)
           /\ table' = refresh_table(hs, days, current_date, filter_tag)
    /\ screen' = Detach(screen, hid)
    /\ last' = "delete_habit"
    /\ streak' = NoStreak
    /\ retired' = Retire(retired, habits_json, hid)
    /\ UNCHANGED <<current_date, filter_tag, report>>

\* f
action_toggle_filter ==
    /\ filter_tag' = cycle_filter(filter_tag)
    /\ table' = refresh_table(habits_json, entries_json, current_date, filter_tag')
    /\ last' = "toggle_filter"
    /\ streak' = NoStreak
    /\ UNCHANGED <<habits_json, entries_json, current_date, report, screen, disk, retired>>

\* t
action_pick_date ==
    /\ screen = MainScreen
    /\ screen' = DateDialog
    /\ last' = "view"
    /\ streak' = NoStreak
    /\ UNCHANGED <<habits_json, entries_json, current_date, filter_tag, table, report, disk, retired>>

\* r
action_show_report ==
    /\ report' = [kind |-> "report", day |-> day_key(current_date),
                  body |-> build_report(habits_json, entries_json, current_date)]
    /\ last' = "show_report"
    /\ streak' = NoStreak
    /\ UNCHANGED <<habits_json, entries_json, current_date, filter_tag, table, screen, disk, retired>>

\* s
action_save ==
    /\ disk' = save(habits_json, entries_json)
    /\ last' = "save"
    /\ streak' = NoStreak
    /\ UNCHANGED <<habits_json, entries_json, current_date, filter_tag, table, report, screen, retired>>

\* F1
action_help ==
    /\ report' = [kind |-> "help", day |-> 0, body |-> <<>>]
    /\ last' = "help"
    /\ streak' = NoStreak
    /\ UNCHANGED <<habits_json, entries_json, current_date, filter_tag, table, screen, disk, retired>>

----------------------------------------------------------------------------
(* Handlers of the dialogs *)

Buttons == {"save", "cancel"}
DateButtons == {"prev", "today", "next", "close"}

\* faulty variant: the habit is taken out and stored again at the end
UpdateHabit_move(hs, i, title, tags, typ) ==
    Append(RemoveAt(hs, i), [hs[i] EXCEPT !.title = title, !.tags = tags, !.type = typ])

\* self.habit.update({...}) on the dict at position i of the list
UpdateHabit(hs, i, title, tags, typ) ==
    [hs EXCEPT ![i] = [@ EXCEPT !.title = title, !.tags = tags, !.type = typ]]

\* hjson["habits"].append({...}) with the id next_id gives
AppendHabit(hs, title, tags, typ) ==
    Append(hs, Habit(next_id(hs), title, tags, typ))

\* EditScreen.on_button_pressed: what the save button makes of the habit list
SavedHabits(hs, scr, title_value, tags_value, type_value) ==
    LET title == Strip(title_value)
        tags == ParseTags(tags_value)
        typ == ParseType(type_value)
    IN  IF scr.kind = "edit"
        THEN IF scr.live /\ FindHabit(hs, scr.hid) # 0
             THEN UpdateHabit(hs, FindHabit(hs, scr.hid), title, tags, typ)
             ELSE hs
        ELSE AppendHabit(hs, title, tags, typ)

EditScreen_on_button_pressed(button, title_value, tags_value, type_value) ==
    /\ screen.kind \in {"add", "edit"}
    /\ IF button = "save"
       THEN LET hs == SavedHabits(habits_json, screen, title_value, tags_value, type_value)
            IN  /\ screen.kind = "add" =>
                       Len(habits_json) < MaxHabits /\ next_id(habits_json) <= MaxId
                /\ habits_json' = hs
                /\ disk' = save(hs, entries_json)
                /\ table' = refresh_table(hs, entries_json, current_date, filter_tag)
                /\ last' = IF screen.kind = "add" THEN "save_add" ELSE "save_edit"
       ELSE /\ last' = "view"
            /\ UNCHANGED <<habits_json, disk, table>>
    /\ screen' = MainScreen
    /\ streak' = NoStreak
    /\ UNCHANGED <<entries_json, current_date, filter_tag, report, retired>>

\* faulty variant: the new record replaces the day's list
AppendLog_overwrite(days, hid, dkey, txt) ==
    LET d == SetDefault(days, dkey)
    IN  [d EXCEPT ![dkey] = <<[id |-> hid, val |-> ValStr(txt)]>>]

\* faulty variant: the record goes to today's list, whatever day is shown
AppendLog_today(days, hid, dkey, txt) ==
    LET d == SetDefault(days, day_key(Today))
    IN  [d EXCEPT ![day_key(Today)] = Append(@, [id |-> hid, val |-> ValStr(txt)])]

\* the append of LogInputScreen.on_button_pressed
AppendLog(days, hid, dkey, txt) ==
    LET d == SetDefault(days, dkey)
    IN  [d EXCEPT ![dkey] = Append(@, [id |-> hid, val |-> ValStr(txt)])]

LogInputScreen_on_button_pressed(button, text_value) ==
    /\ screen.kind = "log"
    /\ IF button = "save" /\ Strip(text_value) # <<>>
       THEN LET days == AppendLog(entries_json, screen.hid, day_key(current_date),
                                  Strip(text_value))
            IN  /\ TotalEntries(entries_json) < MaxEntries
                /\ entries_json' = days
                /\ disk' = save(habits_json, days)
                /\ table' = refresh_table(habits_json, days, current_date, filter_tag)
       ELSE UNCHANGED <<entries_json, disk, table>>
    /\ last' = (IF button # "save" THEN "view"
                ELSE IF Strip(text_value) # <<>> THEN "save_log" ELSE "drop_log")
    /\ screen' = MainScreen
    /\ streak' = NoStreak
    /\ UNCHANGED <<habits_json, current_date, filter_tag, report, retired>>

\* the date the buttons of DateScreen move to
MovedDate(date, button) ==
    CASE button = "prev" -> date - 1
      [] button = "next" -> date + 1
      [] button = "today" -> Today
      [] OTHER -> date

DateScreen_on_button_pressed(button) ==
    /\ screen.kind = "date"
    /\ MovedDate(current_date, button) \in Dates
    /\ current_date' = MovedDate(current_date, button)
    /\ table' = refresh_table(habits_json, entries_json, current_date', filter_tag)
    /\ screen' = IF button = "close" THEN MainScreen ELSE screen
    /\ last' = "view"
    /\ streak' = NoStreak
    /\ UNCHANGED <<habits_json, entries_json, filter_tag, report, disk, retired>>

----------------------------------------------------------------------------

HabitIds == 1..MaxId

(* The keys of the main screen *)

KeySpace == \E hid \in HabitIds : action_toggle_check(hid)
KeyA == action_add_habit
KeyE == \E hid \in HabitIds : action_edit_habit(hid)
KeyD == \E hid \in HabitIds : action_delete_habit(hid)
KeyF == action_toggle_filter
KeyT == action_pick_date
KeyR == action_show_report
KeyS == action_save
KeyF1 == action_help

(* The buttons of the dialogs, with what was typed into their inputs *)

EditButtons(titles, tagss, types) ==
    \/ \E ti \in titles, ta \in tagss, ty \in types :
           EditScreen_on_button_pressed("save", ti, ta, ty)
    \/ EditScreen_on_button_pressed("cancel", <<>>, <<>>, <<>>)

LogButtons(texts) ==
    \/ \E tx \in texts : LogInputScreen_on_button_pressed("save", tx)
    \/ LogInputScreen_on_button_pressed("cancel", <<>>)

DateButtonPressed == \E b \in DateButtons : DateScreen_on_button_pressed(b)

\* the whole program: every key at any time, every input
Next ==
    \/ KeySpace
    \/ KeyA
    \/ KeyE
    \/ KeyD
    \/ KeyF
    \/ KeyT
    \/ KeyR
    \/ KeyS
    \/ KeyF1
    \/ EditButtons(TitleInputs, TagsInputs, TypeInputs)
    \/ LogButtons(LogInputs)
    \/ DateButtonPressed

Spec == Init /\ [][Next]_vars

(* Tracking: habits are added, edited, deleted, checked off and logged over  *)
(* the dates; the user closes a dialog before pressing a key of the main     *)
(* screen, gives every habit the title "a" and no tag, and types "log" or    *)
(* nothing into the type input.                                              *)

TrackTitles == { <<SP, "a", SP>> }
TrackTags == { <<>> }
TrackTypes == { <<>>, Str_log }
TrackTexts == { <<SP>>, <<SP, "s">> }

NextTrack ==
    \/ screen = MainScreen /\ KeySpace
    \/ KeyA
    \/ KeyE
    \/ screen = MainScreen /\ KeyD
    \/ KeyT
    \/ EditButtons(TrackTitles, TrackTags, TrackTypes)
    \/ LogButtons(TrackTexts)
    \/ DateButtonPressed

SpecTrack == Init /\ [][NextTrack]_vars

(* Daily use: the tracking above without the edit key: a habit keeps the    *)
(* type it was added with.                                                  *)

NextDaily ==
    \/ screen = MainScreen /\ KeySpace
    \/ KeyA
    \/ screen = MainScreen /\ KeyD
    \/ KeyT
    \/ EditButtons(TrackTitles, TrackTags, TrackTypes)
    \/ LogButtons(TrackTexts)
    \/ DateButtonPressed

SpecDaily == Init /\ [][NextDaily]_vars

(* Reporting: habits are added, checked off and logged over the dates, and  *)
(* the report and the help text are shown.                                  *)

NextReport ==
    \/ screen = MainScreen /\ KeySpace
    \/ KeyA
    \/ KeyT
    \/ screen = MainScreen /\ KeyR
    \/ screen = MainScreen /\ KeyF1
    \/ EditButtons(TrackTitles, TrackTags, TrackTypes)
    \/ LogButtons(TrackTexts)
    \/ DateButtonPressed

SpecReport == Init /\ [][NextReport]_vars

(* Filtering: check habits with and without a tag are added, checked off    *)
(* and deleted, and the filter is cycled.                                   *)

NextFilter ==
    \/ screen = MainScreen /\ KeySpace
    \/ KeyA
    \/ screen = MainScreen /\ KeyD
    \/ screen = MainScreen /\ KeyF
    \/ EditButtons(TrackTitles, TagsInputs, { <<>> })

SpecFilter == Init /\ [][NextFilter]_vars

(* Forms: habits are added, edited and deleted with every input of the edit *)
(* dialog.                                                                  *)

NextForms ==
    \/ KeyA
    \/ KeyE
    \/ screen = MainScreen /\ KeyD
    \/ EditButtons(TitleInputs, TagsInputs, TypeInputs)

SpecForms == Init /\ [][NextForms]_vars

----------------------------------------------------------------------------
(* Properties *)

IdsOf(hs) == { hs[i].id : i \in 1..Len(hs) }
Others(arr, hid) == LET Keep(r) == r.id # hid IN SelectSeq(arr, Keep)
AllFilters == {None} \cup { Some(THEMES[i]) : i \in 1..Len(THEMES) }
Today_list == DayList(entries_json, day_key(current_date))

\* C1: two toggles in a row of one check habit on one day leave the habit's
\* completion for that day as it was before the first of them.
C1_ToggleTwiceRestoresCompletion ==
    Len(streak.pre) = 2 =>
        Completed(entries_json, streak.hid, day_key(current_date)) = streak.pre[1]

\* two toggles in a row of a habit that was checked, away from today, with
\* another record stored in that day
C1_Witness ==
    /\ Len(streak.pre) = 2
    /\ streak.pre[1]
    /\ current_date # Today
    /\ Len(Today_list) = 2

\* C2: a step of delete_habit(h) leaves no habit with id h, no record with id h
\* under any day key, no row and no report line for h on any day and under any
\* filter, and the records of the other habits in their day and order.
C2_DeleteCascades ==
    [][\A h \in HabitIds : (last' = "delete_habit" /\ action_delete_habit(h)) =>
          /\ h \notin IdsOf(habits_json')
          /\ DOMAIN entries_json' = DOMAIN entries_json
          /\ \A d \in DOMAIN entries_json' :
                /\ \A r \in Range(entries_json'[d]) : r.id # h
                /\ Others(entries_json'[d], h) = Others(entries_json[d], h)
          /\ \A d \in Dates :
                /\ \A ft \in AllFilters :
                      h \notin CursorIds(refresh_table(habits_json', entries_json', d, ft))
                /\ \A l \in Range(build_report(habits_json', entries_json', d)) : l.id # h
      ]_vars

\* a delete has run, another habit is left, and a day other than the shown one
\* holds a record
C2_Witness ==
    /\ last = "delete_habit"
    /\ habits_json # <<>>
    /\ \E d \in DOMAIN entries_json : d # day_key(current_date) /\ entries_json[d] # <<>>
    /\ Today_list # <<>>

\* C3: saving a text that is not empty after trimming, in the log dialog of a
\* log habit, makes the list of the shown day the old list with the one record
\* {id, val: text} appended: the old records stay in place, the length grows by one.
C3_AppendLogAppendsOne ==
    [][\A tx \in LogInputs :
          ( /\ last' = "save_log"
            /\ LogInputScreen_on_button_pressed("save", tx)
            /\ Strip(tx) # <<>>
            /\ \E i \in 1..Len(habits_json) :
                  habits_json[i].id = screen.hid /\ habits_json[i].type = Str_log )
          => LET dkey == day_key(current_date)
                 old == DayList(entries_json, dkey)
                 new == DayList(entries_json', dkey)
             IN  /\ Len(new) = Len(old) + 1
                 /\ SubSeq(new, 1, Len(old)) = old
                 /\ new[Len(new)] = [id |-> screen.hid, val |-> ValStr(Strip(tx))]
      ]_vars

\* a text was appended to a day that held a record already
C3_Witness ==
    /\ last = "save_log"
    /\ Len(Today_list) >= 2
    /\ IsStr(Today_list[Len(Today_list)].val)

\* C4: saving the add dialog appends one active habit whose id is 1 on an empty
\* list and the largest id + 1 otherwise, and leaves the other habits and the
\* entries as they were.
C4_AddAllocatesMaxPlusOne ==
    [][(screen.kind = "add" /\ last' = "save_add") =>
          LET n == Len(habits_json)
              new == habits_json'[n + 1]
          IN  /\ Len(habits_json') = n + 1
              /\ SubSeq(habits_json', 1, n) = habits_json
              /\ new.active
              /\ IF n = 0 THEN new.id = 1
                 ELSE /\ new.id - 1 \in IdsOf(habits_json)
                      /\ \A k \in IdsOf(habits_json) : k < new.id
              /\ entries_json' = entries_json
      ]_vars

\* a habit was added to the list {2}: it got id 3, not the free id 1
C4_Witness ==
    /\ last = "save_add"
    /\ Len(habits_json) = 2
    /\ habits_json[1].id = 2
    /\ habits_json[2].id = 3

\* C5: the habits of the list have pairwise distinct, positive ids.
C5_IdsDistinctPositive ==
    /\ \A i \in 1..Len(habits_json) : habits_json[i].id \in Nat \ {0}
    /\ \A i, j \in 1..Len(habits_json) : i # j => habits_json[i].id # habits_json[j].id

\* two habits, the second added after a habit was deleted, and an edit
C5_Witness ==
    /\ Len(habits_json) = 2
    /\ habits_json[1].id > 1
    /\ last = "save_edit"

\* the rows refresh_table shows for a day and a filter, and the habit of a row
HabitOfRow(row) == habits_json[FindHabit(habits_json, StrToInt(row.id))]

\* C6: the filter key pressed while the filter is the last theme unsets the filter.
C6_LastThemeCyclesToNone ==
    [][(action_toggle_filter /\ filter_tag = Some(THEMES[Len(THEMES)]))
          => filter_tag' = None]_vars

\* C7: the report of a day has its lines in ascending order of habit id, every
\* line for an active habit; for a check habit one line if a record of the day
\* with its id has val True and none otherwise; for a log habit one line per
\* string record of the day with its id, in stored order; and no line at all
\* when the day holds no record of an active habit.
ReportAsClaimed(body, d) ==
    LET arr == DayList(entries_json, day_key(d))
        LinesOf(h) == LET Mine(l) == l.id = h.id IN SelectSeq(body, Mine)
        StringsOf(h) == LET Mine(r) == r.id = h.id /\ IsStr(r.val)
                        IN  SelectSeq(arr, Mine)
    IN  /\ \A i, j \in 1..Len(body) : i < j => body[i].id <= body[j].id
        /\ \A l \in Range(body) :
              \E i \in 1..Len(habits_json) :
                  habits_json[i].active /\ habits_json[i].id = l.id
        /\ \A i \in 1..Len(habits_json) :
              LET h == habits_json[i]
              IN  /\ (h.active /\ h.type = Str_check) =>
                         Len(LinesOf(h)) =
                             IF \E r \in Range(arr) : r.id = h.id /\ IsTrue(r.val)
                             THEN 1 ELSE 0
                  /\ (h.active /\ h.type = Str_log) =>
                         /\ Len(LinesOf(h)) = Len(StringsOf(h))
                         /\ \A k \in 1..Len(LinesOf(h)) :
                               LinesOf(h)[k].val = StringsOf(h)[k].val.str
        /\ (\A r \in Range(arr) :
               ~\E i \in 1..Len(habits_json) :
                   habits_json[i].active /\ habits_json[i].id = r.id)
           => body = <<>>

C7_ReportLines ==
    \A d \in Dates : ReportAsClaimed(build_report(habits_json, entries_json, d), d)

\* the report of tomorrow was shown: a check line of habit 1 before a log line
\* of habit 2, stored in the other order, with a record left out that is today's
C7_Witness ==
    /\ last = "show_report"
    /\ report.day = day_key(current_date)
    /\ current_date # Today
    /\ report.body = build_report(habits_json, entries_json, current_date)
    /\ Len(report.body) = 2
    /\ report.body[1].kind = "check"
    /\ report.body[2].kind = "log"
    /\ Today_list[1].id = 2

\* C8: the done mark of a row of a check habit says that a record with the
\* habit's id and val True is stored in the shown day, and that of a log habit
\* that some record with its id is; a marked row has a line in the day's report.
C8_DoneMarkByType ==
    \A i \in 1..Len(table) :
        LET h == HabitOfRow(table[i])
            arr == Today_list
        IN  /\ h.type = Str_check =>
                  (table[i].mark <=> \E r \in Range(arr) : r.id = h.id /\ IsTrue(r.val))
            /\ h.type = Str_log =>
                  (table[i].mark <=> \E r \in Range(arr) : r.id = h.id)
            /\ table[i].mark =>
                  \E l \in Range(build_report(habits_json, entries_json, current_date)) :
                      l.id = h.id

\* C9: every habit of the list has a title that is not empty.
C9_TitlesNotEmpty ==
    \A i \in 1..Len(habits_json) : habits_json[i].title # <<>>

\* C10: every habit of the list has the type check or the type log.
C10_TypesCheckOrLog ==
    \A i \in 1..Len(habits_json) : habits_json[i].type \in {Str_check, Str_log}

\* C11: between any two handlers the documents on disk are the documents in
\* memory: every handler that changed a document, the creation of a day key
\* included, has saved both.
C11_DiskEqualsMemory == disk = save(habits_json, entries_json)

(* The filter cycle as a function of its argument: filter_tag starts as None, *)
(* as a theme, or as a string that is no theme, and the filter key is pressed *)
(* among the steps of the filtering above.                                   *)

CycleInputs == AllFilters \cup { Some(<<"x">>), Some(<<"1", "x">>) }

InitCycle ==
    /\ habits_json = <<>>
    /\ entries_json = EmptyDays
    /\ current_date = Today
    /\ filter_tag \in CycleInputs
    /\ table = refresh_table(<<>>, EmptyDays, Today, filter_tag)
    /\ report = EmptyPanel
    /\ screen = MainScreen
    /\ disk = save(<<>>, EmptyDays)
    /\ last = "init"
    /\ streak = NoStreak
    /\ retired = NotRecorded

SpecCycle == InitCycle /\ [][NextFilter]_vars

InitSession ==
    /\ habits_json = <<>>
    /\ entries_json = EmptyDays
    /\ current_date = Today
    /\ filter_tag = None
    /\ table = refresh_table(<<>>, EmptyDays, Today, None)
    /\ report = EmptyPanel
    /\ screen = MainScreen
    /\ disk = save(<<>>, EmptyDays)
    /\ last = "init"
    /\ streak = NoStreak
    /\ retired = Recorded({})

SpecSession == InitSession /\ [][NextForms]_vars

\* C13: no habit of the list has the id of a habit that was deleted earlier in
\* the session: add_habit never hands out such an id again.
C13_IdsNeverReused ==
    \A i \in 1..Len(habits_json) : habits_json[i].id \notin retired.ids

\* C14: two toggles in a row of one check habit on one day leave the day's
\* sequence of records (id and val of each, in order) as it was before the
\* first of them, whether the habit was checked before or not.
C14_ToggleTwiceRestoresRecords ==
    Len(streak.was) = 2 => Today_list = streak.was[1]

\* C14, amended: two toggles in a row leave the day with the records it had:
\* the same sequence when the habit was unchecked before; when it was checked,
\* the other records in their order and the habit's completion record last.
C14_ToggleTwiceKeepsRecords ==
    Len(streak.was) = 2 =>
        LET old == streak.was[1]
            new == Today_list
            Rest(r) == ~(r.id = streak.hid /\ IsTrue(r.val))
        IN  /\ Len(new) = Len(old)
            /\ SelectSeq(new, Rest) = SelectSeq(old, Rest)
            /\ ~streak.pre[1] => new = old
            /\ streak.pre[1] => new[Len(new)] = [id |-> streak.hid, val |-> ValTrue]

\* two toggles in a row of a habit that was checked, with a record stored after
\* its completion record: the completion record has moved behind it
C14_Witness ==
    /\ Len(streak.was) = 2
    /\ streak.pre[1]
    /\ Len(streak.was[1]) = 2
    /\ Today_list # streak.was[1]

(* Editing: habits are added, given another title and type, checked off and  *)
(* logged today.                                                             *)

EditTitles == { <<SP, "a", SP>>, <<"b">> }

NextEdit ==
    \/ screen = MainScreen /\ KeySpace
    \/ KeyA
    \/ KeyE
    \/ EditButtons(EditTitles, TrackTags, TrackTypes)
    \/ LogButtons(TrackTexts)

SpecEdit == Init /\ [][NextEdit]_vars

\* C15: saving the edit dialog of habit h leaves the list as long as it was,
\* h at its position with its id and active flag, every other habit and the
\* records of every day as they were.
C15_EditKeepsIdPlaceAndRecords ==
    [][(screen.kind = "edit" /\ last' = "save_edit") =>
          LET i == FindHabit(habits_json, screen.hid)
          IN  /\ i # 0
              /\ Len(habits_json') = Len(habits_json)
              /\ habits_json'[i].id = habits_json[i].id
              /\ habits_json'[i].active = habits_json[i].active
              /\ \A k \in 1..Len(habits_json) : k # i => habits_json'[k] = habits_json[k]
              /\ entries_json' = entries_json
      ]_vars

\* the first of two habits was edited: it is a check habit now, with another
\* title, and a string record from its time as a log habit is still stored
C15_Witness ==
    /\ last = "save_edit"
    /\ Len(habits_json) = 2
    /\ habits_json[1].type = Str_check
    /\ habits_json[1].title = <<"b">>
    /\ \E r \in Range(Today_list) : r.id = habits_json[1].id /\ IsStr(r.val)

AllSpaces(t) == \A i \in 1..Len(t) : t[i] = SP

\* C16: saving the log dialog with a text of spaces only, or no text, leaves
\* the records of every day as they were; and after every step each stored
\* string val is a string that is not empty.
C16_EmptyLogDropped ==
    [][/\ \A tx \in LogInputs \cup TrackTexts :
              ( /\ last' \in {"drop_log", "save_log"}
                /\ AllSpaces(tx)
                /\ LogInputScreen_on_button_pressed("save", tx) )
              => entries_json' = entries_json
       /\ \A d \in DOMAIN entries_json' :
              \A r \in Range(entries_json'[d]) : IsStr(r.val) => r.val.str # <<>>
      ]_vars

\* an empty text was dropped on a day that holds a text
C16_Witness ==
    /\ last = "drop_log"
    /\ \E r \in Range(Today_list) : IsStr(r.val)

(* Keys under an open dialog: the bindings of the main screen stay active    *)
(* while a dialog is shown, so a habit can be deleted while the log dialog   *)
(* that was opened for it is waiting for its save button.                    *)

NextOverlap ==
    \/ KeySpace
    \/ KeyA
    \/ KeyD
    \/ EditButtons(TrackTitles, TrackTags, TrackTypes)
    \/ LogButtons(TrackTexts)

SpecOverlap == Init /\ [][NextOverlap]_vars

\* C17: every record of every day has the id of a habit of the list.
C17_RecordsHaveHabits ==
    \A d \in DOMAIN entries_json :
        \A r \in Range(entries_json[d]) : r.id \in IdsOf(habits_json)

\* C18: no day holds two records with val True and the same id.
C18_OneCompletionPerDay ==
    \A d \in DOMAIN entries_json :
        \A i, j \in 1..Len(entries_json[d]) :
            ( /\ i # j
              /\ IsTrue(entries_json[d][i].val)
              /\ IsTrue(entries_json[d][j].val) )
            => entries_json[d][i].id # entries_json[d][j].id

\* a check habit that was a log habit for a while has been checked off again:
\* its day holds a text of it and, after that, its one completion record
C18_Witness ==
    /\ last = "toggle_check"
    /\ Len(Today_list) = 2
    /\ Today_list[1].id = Today_list[2].id
    /\ IsStr(Today_list[1].val)
    /\ IsTrue(Today_list[2].val)
    /\ Len(streak.pre) = 2

\* whether list a is list b with records appended
IsPrefix(a, b) == Len(a) <= Len(b) /\ SubSeq(b, 1, Len(a)) = a

\* C19: a step of delete_habit(h) leaves in every day the records of the other
\* ids, in order; a toggle leaves every day but the shown one as it was and in
\* the shown day either only appends or takes out one record, which has the
\* toggled habit's id and val True; every other step leaves each day's records
\* in place and at most appends to them.  So a string record goes only with
\* the delete of its id.
C19_RemovalOnlyByToggleOrDelete ==
    [][\A d \in DOMAIN entries_json :
          /\ d \in DOMAIN entries_json'
          /\ LET old == entries_json[d]
                 new == entries_json'[d]
             IN  CASE last' = "delete_habit" /\ entries_json' # entries_json ->
                          \E h \in HabitIds :
                              /\ action_delete_habit(h)
                              /\ new = Others(old, h)
                   [] last' = "toggle_check" /\ entries_json' # entries_json ->
                          IF d # day_key(current_date) THEN new = old
                          ELSE \/ IsPrefix(old, new)
                               \/ \E i \in 1..Len(old) :
                                      /\ new = RemoveAt(old, i)
                                      /\ old[i] = [id |-> streak'.hid, val |-> ValTrue]
                   [] OTHER -> IsPrefix(old, new)
      ]_vars

\* a completion record was taken out by a toggle and a text stored before it in
\* the same day has stayed
C19_Witness ==
    /\ last = "toggle_check"
    /\ Len(streak.was) >= 1
    /\ streak.pre[Len(streak.pre)]
    /\ Len(Today_list) = 1
    /\ IsStr(Today_list[1].val)
    /\ Len(streak.was[Len(streak.was)]) = 2

(* Days and filter: habits with the first theme as their tag are added,      *)
(* checked off and logged over the dates, and the filter is cycled.          *)

DayTags == { <<"1">> }

NextDays ==
    \/ screen = MainScreen /\ KeySpace
    \/ KeyA
    \/ screen = MainScreen /\ KeyF
    \/ KeyT
    \/ EditButtons(TrackTitles, DayTags, TrackTypes)
    \/ LogButtons(TrackTexts)
    \/ DateButtonPressed

SpecDays == Init /\ [][NextDays]_vars

\* C20: a toggle or a log-append leaves the habit list, the shown date and the
\* records of every day key but the shown one as they were, and no day key
\* goes; a button of the date dialog leaves the habits, the entries, the files
\* and the filter as they were; the filter key leaves everything but the filter
\* (and the rows drawn from it) as it was.
C20_DayPartitioning ==
    [][/\ last' \in {"toggle_check", "save_log"} =>
              /\ habits_json' = habits_json
              /\ current_date' = current_date
              /\ DOMAIN entries_json \subseteq DOMAIN entries_json'
              /\ DOMAIN entries_json' \subseteq DOMAIN entries_json \cup {day_key(current_date)}
              /\ \A d \in DOMAIN entries_json :
                     d # day_key(current_date) => entries_json'[d] = entries_json[d]
       /\ DateButtonPressed =>
              /\ habits_json' = habits_json
              /\ entries_json' = entries_json
              /\ disk' = disk
              /\ filter_tag' = filter_tag
       /\ action_toggle_filter =>
              /\ habits_json' = habits_json
              /\ entries_json' = entries_json
              /\ disk' = disk
              /\ current_date' = current_date
              /\ screen' = screen
              /\ report' = report
      ]_vars

\* a text was logged tomorrow, under a filter, while today holds a record
C20_Witness ==
    /\ last = "save_log"
    /\ current_date # Today
    /\ ~filter_tag.isNone
    /\ Today_list # <<>>
    /\ DayList(entries_json, day_key(Today)) # <<>>

====
